---- MODULE Spec2Model ----
(***************************************************************************)
(* Model of the macro dashboard of finwin (web/src/components/macro):     *)
(* the load / sort / page / toggle state machine of MacroDashboard and    *)
(* the table ordering computed by its useMemo.                             *)
(*                                                                         *)
(* Representation.  A nullable value is a sequence of length at most one: *)
(* <<>> is null and <<v>> is the value v.  Strings that are only ever     *)
(* compared with localeCompare (name, region) are represented by their    *)
(* collation rank, a natural number, the empty string having rank 0.      *)
(***************************************************************************)
EXTENDS Integers, Sequences, FiniteSets, TLC

\* ------------------------------------------------------------------ bounds
\* Number of dashboard fetches issued in one behaviour.
MaxLoads == 2
\* Number of times the MacroDashboard component is mounted in one behaviour.
MaxMounts == 2
\* Number of toggles of the comparison check boxes per mounted dashboard.
MaxToggles == 2
\* Length of the stores enumerated for the ordering claims.
MaxLen == 3
\* Largest number of records of the stores enumerated for the paging claims.
MaxCount == 41
\* Largest number of points of the time series enumerated for the chart claims.
MaxPoints == 2
\* Largest number of rows ticked in turn before the legend is looked at.
MaxTicked == 11
\* Largest limit, the default aside, the trade balance chart is rendered with.
MaxLimit == 5

\* --------------------------------------------------------- program constants
ITEMS_PER_PAGE == 20
\* TradeBalanceChart({ countries, limit = 20 })
DEFAULT_LIMIT == 20
\* result.countries.slice(0, 5)
DEFAULT_SELECTED == 5

Null == <<>>
Some(v) == <<v>>

\* Variant: a null metric sorts below every value instead of as 0.
NullishLowest(x) == IF x = <<>> THEN -99 ELSE x[1]

\* a ?? 0
NullishZero(x) == IF x = <<>> THEN 0 ELSE x[1]
\* a || ''   (the empty string has rank 0)
OrEmpty(x) == IF x = <<>> THEN 0 ELSE x[1]

Min(a, b) == IF a < b THEN a ELSE b
Max(a, b) == IF a > b THEN a ELSE b

\* Sign of a - b: String.prototype.localeCompare on collation ranks.
LocaleCompare(a, b) == IF a < b THEN -1 ELSE IF a > b THEN 1 ELSE 0

\* type SortField of TopEconomiesTable.tsx
BaseSortFields == {"rank", "name", "region", "gdp", "growth", "population", "gdp_per_capita"}
\* the headers added by the extended table
ExtendedSortFields == {"fdi_net", "trade_balance", "trade_pct"}
SortFields == BaseSortFields \cup ExtendedSortFields

\* ------------------------------------------------------------ the comparator
\* The switch of the sort callback: a field without a case leaves comparison 0.
Comparison(a, b, field) ==
    CASE field \in {"rank", "gdp"} -> NullishZero(a.latest_gdp) - NullishZero(b.latest_gdp)
      [] field = "name" -> LocaleCompare(a.name, b.name)
      [] field = "region" -> LocaleCompare(OrEmpty(a.region), OrEmpty(b.region))
      [] field = "growth" -> NullishZero(a.gdp_growth) - NullishZero(b.gdp_growth)
      [] field = "population" -> NullishZero(a.population) - NullishZero(b.population)
      [] field = "gdp_per_capita" -> NullishZero(a.gdp_per_capita) - NullishZero(b.gdp_per_capita)
      [] OTHER -> 0

\* return sortDirection === 'desc' ? -comparison : comparison
Comparator(a, b, field, direction) ==
    IF direction = "desc" THEN 0 - Comparison(a, b, field) ELSE Comparison(a, b, field)

\* Variant: an unstable sort, x also moves past the elements equal to it.
RECURSIVE InsertSortedUnstable(_, _, _, _)
InsertSortedUnstable(sorted, x, field, direction) ==
    IF sorted = <<>> THEN <<x>>
    ELSE IF Comparator(sorted[Len(sorted)], x, field, direction) < 0
      THEN Append(sorted, x)
      ELSE Append(InsertSortedUnstable(SubSeq(sorted, 1, Len(sorted) - 1), x, field, direction),
                  sorted[Len(sorted)])

\* Array.prototype.sort is stable: x moves left past the elements that
\* compare greater than it, and stops behind the first that does not.
RECURSIVE InsertSorted(_, _, _, _)
InsertSorted(sorted, x, field, direction) ==
    IF sorted = <<>> THEN <<x>>
    ELSE IF Comparator(sorted[Len(sorted)], x, field, direction) <= 0
      THEN Append(sorted, x)
      ELSE Append(InsertSorted(SubSeq(sorted, 1, Len(sorted) - 1), x, field, direction),
                  sorted[Len(sorted)])

RECURSIVE SortPrefix(_, _, _, _)
SortPrefix(arr, n, field, direction) ==
    IF n = 0 THEN <<>>
    ELSE InsertSorted(SortPrefix(arr, n - 1, field, direction), arr[n], field, direction)

\* [...data.countries].sort(comparator)
SortCountries(countries, field, direction) ==
    SortPrefix(countries, Len(countries), field, direction)

\* Variant: one page more than the whole pages the records fill.
TotalPagesFloorPlusOne(count) == (count \div ITEMS_PER_PAGE) + 1

\* Math.ceil(sorted.length / ITEMS_PER_PAGE)
TotalPages(count) == (count + ITEMS_PER_PAGE - 1) \div ITEMS_PER_PAGE

\* (currentPage - 1) * ITEMS_PER_PAGE + 1
StartRank(page) == (page - 1) * ITEMS_PER_PAGE + 1

\* <td className="rank">{startRank + index}</td>, index counting from 0
RowRank(page, index) == StartRank(page) + index

\* Variant: a slice that runs one record into the next page.
PageSliceOverlapping(sorted, page) ==
    LET start == (page - 1) * ITEMS_PER_PAGE
    IN SubSeq(sorted, start + 1, Min(start + ITEMS_PER_PAGE + 1, Len(sorted)))

\* sorted.slice(start, start + ITEMS_PER_PAGE)
PageSlice(sorted, page) ==
    LET start == (page - 1) * ITEMS_PER_PAGE
    IN SubSeq(sorted, start + 1, Min(start + ITEMS_PER_PAGE, Len(sorted)))

EmptyMemo == [sortedCountries |-> <<>>, totalPages |-> 0, paginatedCountries |-> <<>>]

\* The useMemo over [data, sortField, sortDirection, currentPage]: it is
\* evaluated anew when one of the four changes and kept otherwise.
UseMemo(d, field, direction, page) ==
    IF d = <<>> THEN EmptyMemo
    ELSE LET sorted == SortCountries(d[1].countries, field, direction)
         IN [sortedCountries |-> sorted,
             totalPages |-> TotalPages(Len(sorted)),
             paginatedCountries |-> PageSlice(sorted, page)]


\* ------------------------------------------------------------ fetched data
\* A CountryInfo record of the dashboard bundle; every metric is nullable.
Country(code, name, region, gdp, growth, population, perCapita, fdi, trade, tradePct) ==
    [code |-> code, name |-> name, region |-> region, latest_gdp |-> gdp,
     gdp_growth |-> growth, population |-> population, gdp_per_capita |-> perCapita,
     fdi_net |-> fdi, trade_balance |-> trade, trade_balance_pct |-> tradePct]

\* The i-th of n records of a response.  order "desc" lists the records by
\* descending GDP, order "asc" by ascending GDP; some metrics are null.
ServerCountry(i, n, order) ==
    Country(i,
            ((i * 5) % 7) + 1,
            IF i % 4 = 0 THEN Null ELSE Some(i % 3),
            IF i = n /\ n > 1 THEN Null
                ELSE Some(IF order = "desc" THEN n - i + 1 ELSE i),
            IF i % 5 = 0 THEN Null ELSE Some((i % 3) - 1),
            Some(i),
            IF i % 6 = 0 THEN Null ELSE Some((i * 2) % 5),
            IF i % 2 = 0 THEN Null ELSE Some((i % 4) - 2),
            Some(3 - (i % 7)),
            IF i % 3 = 0 THEN Null ELSE Some(i % 2))

ServerCountries(n, order) == [i \in 1..n |-> ServerCountry(i, n, order)]

\* The country lists the modelled server answers with: empty, fewer than
\* DEFAULT_SELECTED records, one page in another order, two pages.
ServerResponses ==
    {ServerCountries(0, "desc"), ServerCountries(3, "desc"),
     ServerCountries(7, "asc"), ServerCountries(ITEMS_PER_PAGE + 1, "desc")}

\* The countries whose check box is clicked: one of the default selection
\* and one outside it.
ToggledCodes == {1, DEFAULT_SELECTED + 1}

\* The headers clicked while loads come and go: a numeric field, a text
\* field and a field of the extended table.
ClickedFields == {"gdp", "name", "fdi_net"}

\* The messages a failed fetchMacroDashboard ends with: fetch() rejected,
\* error.detail of a response that is not ok, and the fallback text.
ErrorMessages == {"Failed to fetch", "detail", "Failed to fetch macro dashboard"}

\* ------------------------------------------------------------------- state
VARIABLES
    view,               \* App: 'stock' | 'macro'
    inst,               \* number of the mounted MacroDashboard instance
    loads,              \* the fetches issued so far: [inst, status], status
                        \* pending, ok, failed, or dropped (settled unmounted)
    data,               \* MacroDashboardData | null
    isLoading,
    error,              \* string | null
    selectedCountries,
    currentPage,
    sortField,
    sortDirection,
    memo,               \* {sortedCountries, totalPages, paginatedCountries}
    toggles,            \* toggles made on the mounted instance
    prevTouched,        \* an earlier instance was sorted, paged and toggled
    staleDropped,       \* a response of an unmounted instance arrived late
    limit               \* the limit prop TradeBalanceChart is rendered with

vars == <<view, inst, loads, data, isLoading, error, selectedCountries,
          currentPage, sortField, sortDirection, memo, toggles, prevTouched,
          staleDropped, limit>>

ui == <<data, isLoading, error, selectedCountries, currentPage, sortField,
        sortDirection, memo>>

Pending == {k \in 1..Len(loads) : loads[k].status = "pending"}

\* Variant: the codes of the five largest economies, whatever the store holds.
DefaultSelectionOfFive(countries) == [i \in 1..DEFAULT_SELECTED |-> i]

\* result.countries.slice(0, 5).map(c => c.code)
DefaultSelection(countries) ==
    [i \in 1..Min(DEFAULT_SELECTED, Len(countries)) |-> countries[i].code]

\* prev.includes(code)
Includes(seq, x) == \E i \in 1..Len(seq) : seq[i] = x

\* prev.filter(c => c !== code)
RECURSIVE Without(_, _)
Without(seq, x) ==
    IF seq = <<>> THEN <<>>
    ELSE IF seq[1] = x THEN Without(Tail(seq), x)
         ELSE <<seq[1]>> \o Without(Tail(seq), x)

\* Variant: a code that is added goes to the front of the selection.
ToggleAddsInFront(prev, code) ==
    IF Includes(prev, code) THEN Without(prev, code) ELSE <<code>> \o prev

\* Variant: a click always adds the code.
ToggleAlwaysAdds(prev, code) == Append(prev, code)

\* prev.includes(code) ? prev.filter(c => c !== code) : [...prev, code]
Toggle(prev, code) ==
    IF Includes(prev, code) THEN Without(prev, code) ELSE Append(prev, code)

\* Variant: the state lives outside the component, so a late response of an
\* unmounted instance is applied to the dashboard on screen.
DeliveredToAnyInstance(k) == view = "macro"

\* A state setter acts on the instance whose closure called it; React drops
\* the update when that instance is no longer mounted.
Delivered(k) == view = "macro" /\ loads[k].inst = inst

\* The table is rendered only past the loading, error and no-data returns.
TableShown == view = "macro" /\ ~isLoading /\ error = Null /\ data # Null

\* The sections of the dashboard proper, rendered past the three returns;
\* the comparison chart only for a selection that is not empty.
DashboardSections ==
    {"dashboard-header", "summary-cards", "world-gdp-history", "regional-breakdown",
     "top-economies"}
      \cup (IF Len(selectedCountries) > 0 THEN {"country-comparison"} ELSE {})

\* Variant: the error is a banner above the dashboard, whose header is
\* rendered whether or not there is data.
RenderedWithErrorBanner ==
    IF view # "macro" THEN {}
    ELSE IF isLoading THEN {"loading"}
    ELSE (IF error # Null THEN {"error", "retry"} ELSE {})
           \cup {"dashboard-header"}
           \cup (IF data = Null THEN {} ELSE DashboardSections)

\* What MacroDashboard renders: the spinner while loading, else the error
\* view with its Retry button, else nothing without data, else the dashboard.
Rendered ==
    IF view # "macro" THEN {}
    ELSE IF isLoading THEN {"loading"}
    ELSE IF error # Null THEN {"error", "retry"}
    ELSE IF data = Null THEN {}
    ELSE DashboardSections

\* The useState initial values of a fresh MacroDashboard, then the mount
\* effect's loadDashboard up to its await: a fetch is in flight.
MountDashboard ==
    /\ inst' = inst + 1
    /\ loads' = Append(loads, [inst |-> inst + 1, status |-> "pending"])
    /\ data' = Null
    /\ isLoading' = TRUE
    /\ error' = Null
    /\ selectedCountries' = <<>>
    /\ currentPage' = 1
    /\ sortField' = "gdp"
    /\ sortDirection' = "desc"
    /\ memo' = UseMemo(Null, "gdp", "desc", 1)
    /\ toggles' = 0

Init ==
    /\ view = "macro"
    /\ inst = 1
    /\ loads = <<[inst |-> 1, status |-> "pending"]>>
    /\ data = Null
    /\ isLoading = TRUE
    /\ error = Null
    /\ selectedCountries = <<>>
    /\ currentPage = 1
    /\ sortField = "gdp"
    /\ sortDirection = "desc"
    /\ memo = UseMemo(Null, "gdp", "desc", 1)
    /\ toggles = 0
    /\ prevTouched = FALSE
    /\ staleDropped = FALSE
    /\ limit = DEFAULT_LIMIT

\* App nav button 'Global Wealth': <MacroDashboard /> is mounted anew.
ShowMacro ==
    /\ view = "stock"
    /\ inst < MaxMounts
    /\ Len(loads) < MaxLoads
    /\ view' = "macro"
    /\ MountDashboard
    /\ UNCHANGED <<prevTouched, limit, staleDropped>>

\* App nav button 'Stock Context': the dashboard is unmounted and its state
\* is gone; its fetch, if any, stays in flight.
ShowStock ==
    /\ view = "macro"
    /\ view' = "stock"
    /\ data' = Null
    /\ isLoading' = TRUE
    /\ error' = Null
    /\ selectedCountries' = <<>>
    /\ currentPage' = 1
    /\ sortField' = "gdp"
    /\ sortDirection' = "desc"
    /\ memo' = EmptyMemo
    /\ toggles' = 0
    /\ prevTouched' = (prevTouched \/
                        (toggles > 0 /\ currentPage # 1 /\ sortField # "gdp"))
    /\ UNCHANGED <<inst, loads, staleDropped, limit>>

\* Variant: a reload button that is shown beside the table as well.
ReloadShown == view = "macro" /\ ~isLoading

\* The error view, the only place of a Retry button, is rendered past the
\* loading return when error is set.
RetryShown == view = "macro" /\ ~isLoading /\ error # Null

\* Variant: a Retry button that can be clicked while a load is in progress.
RetryWhileLoading ==
    /\ view = "macro"
    /\ Len(loads) < MaxLoads
    /\ isLoading' = TRUE
    /\ error' = Null
    /\ loads' = Append(loads, [inst |-> inst, status |-> "pending"])
    /\ UNCHANGED <<view, inst, data, memo, selectedCountries, currentPage, sortField,
                   sortDirection, toggles, prevTouched, limit, staleDropped>>

\* The Retry button of the error view: loadDashboard up to its await.
Retry ==
    /\ RetryShown
    /\ Len(loads) < MaxLoads
    /\ isLoading' = TRUE
    /\ error' = Null
    /\ loads' = Append(loads, [inst |-> inst, status |-> "pending"])
    /\ UNCHANGED <<view, inst, data, memo, selectedCountries, currentPage, sortField,
                   sortDirection, toggles, prevTouched, limit, staleDropped>>

\* fetchMacroDashboard resolved with result: the rest of loadDashboard's
\* try, and finally.
FetchResolvedWith(k, result) ==
    /\ k \in Pending
    /\ IF Delivered(k)
         THEN /\ loads' = [loads EXCEPT ![k].status = "ok"]
              /\ data' = Some(result)
              /\ selectedCountries' = DefaultSelection(result.countries)
              /\ isLoading' = FALSE
              /\ memo' = UseMemo(data', sortField, sortDirection, currentPage)
              /\ UNCHANGED <<error, currentPage, sortField, sortDirection, staleDropped>>
         ELSE /\ loads' = [loads EXCEPT ![k].status = "dropped"]
              /\ staleDropped' = (staleDropped \/ TableShown)
              /\ UNCHANGED ui
    /\ UNCHANGED <<view, inst, toggles, prevTouched, limit>>

\* The same for a bundle of which only the country list is looked at.
FetchResolved(k, countries) ==
    FetchResolvedWith(k, [countries |-> countries, generated_at |-> k])

\* Variant: the catch block forgets the error.
ErrorLost(message) == Null

\* setError(err instanceof Error ? err.message : 'Failed to load dashboard')
ErrorAfterCatch(message) == Some(message)

\* Variant: no finally block, so a failure leaves the loading flag set.
FetchFailedStaysLoading(k, message) ==
    /\ k \in Pending
    /\ IF Delivered(k)
         THEN /\ loads' = [loads EXCEPT ![k].status = "failed"]
              /\ error' = ErrorAfterCatch(message)
              /\ UNCHANGED <<isLoading, data, memo, selectedCountries, currentPage,
                             sortField, sortDirection, staleDropped>>
         ELSE /\ loads' = [loads EXCEPT ![k].status = "dropped"]
              /\ staleDropped' = (staleDropped \/ TableShown)
              /\ UNCHANGED ui
    /\ UNCHANGED <<view, inst, toggles, prevTouched, limit>>

\* fetchMacroDashboard threw: loadDashboard's catch, and finally.
FetchFailed(k, message) ==
    /\ k \in Pending
    /\ IF Delivered(k)
         THEN /\ loads' = [loads EXCEPT ![k].status = "failed"]
              /\ error' = ErrorAfterCatch(message)
              /\ isLoading' = FALSE
              /\ UNCHANGED <<data, memo, selectedCountries, currentPage, sortField,
                             sortDirection, staleDropped>>
         ELSE /\ loads' = [loads EXCEPT ![k].status = "dropped"]
              /\ staleDropped' = (staleDropped \/ TableShown)
              /\ UNCHANGED ui
    /\ UNCHANGED <<view, inst, toggles, prevTouched, limit>>

\* Variant: a new field always starts descending.
NextSortDirectionDesc(current, direction, field) ==
    IF current = field
      THEN (IF direction = "asc" THEN "desc" ELSE "asc")
      ELSE "desc"

\* Variant: handleSort without setCurrentPage(1).
PageKept(page) == page

\* setSortDirection / setSortField of handleSort
NextSortField(current, field) == field
NextSortDirection(current, direction, field) ==
    IF current = field
      THEN (IF direction = "asc" THEN "desc" ELSE "asc")
      ELSE (IF field = "name" \/ field = "region" THEN "asc" ELSE "desc")
\* setCurrentPage(1) of handleSort
PageAfterSort(page) == 1

\* A click on a SortHeader of the table.
handleSort(field) ==
    /\ TableShown
    /\ sortField' = NextSortField(sortField, field)
    /\ sortDirection' = NextSortDirection(sortField, sortDirection, field)
    /\ currentPage' = PageAfterSort(currentPage)
    /\ memo' = UseMemo(data, sortField', sortDirection', currentPage')
    /\ UNCHANGED <<view, inst, loads, data, isLoading, error, selectedCountries,
                   toggles, prevTouched, limit, staleDropped>>

\* onPageChange = setCurrentPage
SetCurrentPage(page) ==
    /\ currentPage' = page
    /\ memo' = UseMemo(data, sortField, sortDirection, page)
    /\ UNCHANGED <<view, inst, loads, data, isLoading, error, selectedCountries,
                   sortField, sortDirection, toggles, prevTouched, limit, staleDropped>>

\* The pagination bar is rendered when totalPages > 1.
PaginationShown == TableShown /\ memo.totalPages > 1

\* Variant: the next button is never disabled.
NextPageNeverDisabled == PaginationShown /\ SetCurrentPage(currentPage + 1)

FirstPage == PaginationShown /\ currentPage # 1 /\ SetCurrentPage(1)
PreviousPage == PaginationShown /\ currentPage # 1 /\ SetCurrentPage(currentPage - 1)
NextPage == PaginationShown /\ currentPage # memo.totalPages /\ SetCurrentPage(currentPage + 1)
LastPage == PaginationShown /\ currentPage # memo.totalPages /\ SetCurrentPage(memo.totalPages)

\* Variant: a toggle that also goes back to the first page.
handleToggleCountryToFirstPage(code) ==
    /\ TableShown
    /\ toggles < MaxToggles
    /\ selectedCountries' = Toggle(selectedCountries, code)
    /\ toggles' = toggles + 1
    /\ currentPage' = 1
    /\ memo' = UseMemo(data, sortField, sortDirection, 1)
    /\ UNCHANGED <<view, inst, loads, data, isLoading, error,
                   sortField, sortDirection, prevTouched, limit, staleDropped>>

\* The check box of a row of the displayed page.
handleToggleCountry(code) ==
    /\ TableShown
    /\ toggles < MaxToggles
    /\ selectedCountries' = Toggle(selectedCountries, code)
    /\ toggles' = toggles + 1
    /\ UNCHANGED <<view, inst, loads, data, memo, isLoading, error, currentPage,
                   sortField, sortDirection, prevTouched, limit, staleDropped>>

Next ==
    \/ ShowMacro
    \/ ShowStock
    \/ Retry
    \/ \E k \in Pending : \E countries \in ServerResponses : FetchResolved(k, countries)
    \/ \E k \in Pending : \E message \in ErrorMessages : FetchFailed(k, message)
    \/ \E field \in ClickedFields : handleSort(field)
    \/ FirstPage
    \/ PreviousPage
    \/ NextPage
    \/ LastPage
    \/ \E r \in 1..Len(memo.paginatedCountries) :
          /\ memo.paginatedCountries[r].code \in ToggledCodes
          /\ handleToggleCountry(memo.paginatedCountries[r].code)

Spec == Init /\ [][Next]_vars

\* The promise of the k-th fetch settles: it resolves or it rejects.
Settle(k) ==
    \/ \E countries \in ServerResponses : FetchResolved(k, countries)
    \/ \E message \in ErrorMessages : FetchFailed(k, message)

\* The dashboard with a network on which no fetch stays pending for ever.
SpecLive == Spec /\ \A k \in 1..MaxLoads : WF_vars(Settle(k))

\* ------------------------------------------------- the ordering, store by store
\* Metric and region/name values of the short stores: a null, a zero (the
\* empty string), and values around them.
SmallShapes ==
    {<<Null, Null>>, <<Some(0), Some(0)>>, <<Some(1), Some(1)>>,
     <<Some(0 - 1), Some(2)>>, <<Some(2), Some(1)>>}

Negated(x) == IF x = <<>> THEN <<>> ELSE <<0 - x[1]>>

\* The record at position i of a short store; its code is its position.
SmallCountry(i, shape) ==
    Country(i,
            OrEmpty(shape[2]) + 1,
            shape[2],
            shape[1],
            Negated(shape[1]),
            shape[1],
            Negated(shape[1]),
            shape[1],
            Negated(shape[1]),
            shape[1])

\* Every country list of at most MaxLen such records.
SmallStores ==
    UNION {{[i \in 1..n |-> SmallCountry(i, shapes[i])] : shapes \in [1..n -> SmallShapes]} :
             n \in 0..MaxLen}

\* The stores the table is sorted and paged over: every short store, and one
\* of three pages.
TableStores == SmallStores \cup {ServerCountries(2 * ITEMS_PER_PAGE + 1, "desc")}

\* A dashboard whose only load has succeeded with one of these stores.
SortInit ==
    /\ view = "macro"
    /\ inst = 1
    /\ loads = <<[inst |-> 1, status |-> "ok"]>>
    /\ data \in {Some([countries |-> countries, generated_at |-> 1]) : countries \in TableStores}
    /\ isLoading = FALSE
    /\ error = Null
    /\ selectedCountries = DefaultSelection(data[1].countries)
    /\ currentPage = 1
    /\ sortField = "gdp"
    /\ sortDirection = "desc"
    /\ memo = UseMemo(data, "gdp", "desc", 1)
    /\ toggles = 0
    /\ prevTouched = FALSE
    /\ staleDropped = FALSE
    /\ limit = DEFAULT_LIMIT

SortNext ==
    \/ \E field \in SortFields : handleSort(field)
    \/ FirstPage
    \/ PreviousPage
    \/ NextPage
    \/ LastPage

SpecSort == SortInit /\ [][SortNext]_vars

\* ------------------------------------------------- the paging, count by count
\* A store of every size from none to MaxCount records.
PagedStores == {ServerCountries(n, "desc") : n \in 0..MaxCount}

\* A dashboard whose only load has succeeded with one of these stores.
PagesInit ==
    /\ view = "macro"
    /\ inst = 1
    /\ loads = <<[inst |-> 1, status |-> "ok"]>>
    /\ data \in {Some([countries |-> countries, generated_at |-> 1]) : countries \in PagedStores}
    /\ isLoading = FALSE
    /\ error = Null
    /\ selectedCountries = DefaultSelection(data[1].countries)
    /\ currentPage = 1
    /\ sortField = "gdp"
    /\ sortDirection = "desc"
    /\ memo = UseMemo(data, "gdp", "desc", 1)
    /\ toggles = 0
    /\ prevTouched = FALSE
    /\ staleDropped = FALSE
    /\ limit = DEFAULT_LIMIT

PagesNext ==
    \/ \E field \in ClickedFields : handleSort(field)
    \/ FirstPage
    \/ PreviousPage
    \/ NextPage
    \/ LastPage

SpecPages == PagesInit /\ [][PagesNext]_vars

\* ------------------------------------------------------ the comparison chart
\* String(n) of a year, as the sequence of its decimal digits.
RECURSIVE DecimalString(_)
DecimalString(n) == IF n < 10 THEN <<n>> ELSE Append(DecimalString(n \div 10), n % 10)

\* a < b for strings of digits: the first differing digit decides, and a
\* proper prefix comes first.
RECURSIVE StringLess(_, _)
StringLess(a, b) ==
    IF b = <<>> THEN FALSE
    ELSE IF a = <<>> THEN TRUE
    ELSE IF a[1] # b[1] THEN a[1] < b[1]
    ELSE StringLess(Tail(a), Tail(b))

\* Variant: years compared as numbers.
NumberLess(a, b) == a < b

\* Array.prototype.sort() without a compare function orders the elements by
\* their string conversions.
DefaultLess(a, b) == StringLess(DecimalString(a), DecimalString(b))

\* The elements of a set of years as sort() leaves them.
RECURSIVE DefaultSort(_)
DefaultSort(S) ==
    IF S = {} THEN <<>>
    ELSE LET first == CHOOSE y \in S : \A z \in S \ {y} : DefaultLess(y, z)
         IN <<first>> \o DefaultSort(S \ {first})

\* const data = gdpData[code]; if (data) ...
HasSeries(gdpData, code) == code \in DOMAIN gdpData

\* The selected codes that have a series in the map.
SelectedWithSeries(countries, gdpData) ==
    {countries[i] : i \in {j \in 1..Len(countries) : HasSeries(gdpData, countries[j])}}

\* allYears: the years added while going through the selected series.
AllYears(countries, gdpData) ==
    UNION {{gdpData[code].data[i].year : i \in 1..Len(gdpData[code].data)} :
             code \in SelectedWithSeries(countries, gdpData)}

\* const years = Array.from(allYears).sort()
Years(countries, gdpData) == DefaultSort(AllYears(countries, gdpData))

\* The truth value of a number | null | undefined: null, undefined and 0 are
\* falsy.
Truthy(value) == value # Null /\ value[1] # 0

\* The values that pass d.value && ... in the series of the given codes.
TruthyValues(codes, gdpData) ==
    UNION {{gdpData[code].data[i].value[1] :
              i \in {j \in 1..Len(gdpData[code].data) : Truthy(gdpData[code].data[j].value)}} :
             code \in codes}

MaxOf(S) == CHOOSE m \in S : \A v \in S : v <= m

\* Variant: the scale is that of the first selected series alone.
MaxValueOfFirstSeries(countries, gdpData) ==
    MaxOf({0} \cup TruthyValues(SelectedWithSeries(SubSeq(countries, 1, 1), gdpData), gdpData))

\* let maxValue = 0; ... if (d.value && d.value > maxValue) maxValue = d.value
MaxValue(countries, gdpData) ==
    MaxOf({0} \cup TruthyValues(SelectedWithSeries(countries, gdpData), gdpData))

\* data.data.find(d => d.year === year): the first point of the year, if any.
FindPoint(series, year) ==
    LET hits == {i \in 1..Len(series.data) : series.data[i].year = year}
    IN IF hits = {} THEN Null
       ELSE Some(series.data[CHOOSE i \in hits : \A j \in hits : i <= j])

\* point?.value
ValueOf(point) == IF point = Null THEN Null ELSE point[1].value

\* A coordinate is kept as the exact fraction num / den.
Fraction(num, den) == [num |-> num, den |-> den]

\* Variant: the divisor is years.length - 1 without the guard.
XOfUnguarded(i, n) == Fraction(70 * (n - 1) + 700 * i, n - 1)

\* 70 + (i / Math.max(years.length - 1, 1)) * 700, i counting from 0
XOf(i, n) == Fraction(70 * Max(n - 1, 1) + 700 * i, Max(n - 1, 1))

\* point?.value ? 270 - (point.value / maxValue) * 240 : null
YOf(value, maxValue) ==
    IF Truthy(value) THEN Some(Fraction(270 * maxValue - 240 * value[1], maxValue))
    ELSE Null

\* years.map((year, i) => ({x, y, year, value})).filter(p => p.y !== null)
\* for the series of one selected code.
Points(code, countries, gdpData) ==
    LET years == Years(countries, gdpData)
        maxValue == MaxValue(countries, gdpData)
        all == [i \in 1..Len(years) |->
                  LET point == FindPoint(gdpData[code], years[i])
                  IN [x |-> XOf(i - 1, Len(years)),
                      y |-> YOf(ValueOf(point), maxValue),
                      year |-> years[i],
                      value |-> ValueOf(point)]]
        plotted(p) == p.y # Null
    IN SelectSeq(all, plotted)

\* The years and the values of the enumerated series: a year of three
\* digits beside years of four; a null, a zero and two amounts.
YearValues == {999, 2020, 2021, 2022}
PointValues == {Null, Some(0), Some(5), Some(10)}

\* The series with the given value for each of the given years, listed by
\* ascending year.
SeriesOf(valueOf) ==
    LET S == DOMAIN valueOf
        nth(i) == CHOOSE y \in S : Cardinality({z \in S : z < y}) = i - 1
    IN [data |-> [i \in 1..Cardinality(S) |-> [year |-> nth(i), value |-> valueOf[nth(i)]]]]

\* Every series of at most MaxPoints points.
ShortSeries ==
    UNION {{SeriesOf(valueOf) : valueOf \in [S -> PointValues]} :
             S \in {T \in SUBSET YearValues : Cardinality(T) <= MaxPoints}}

\* Longer series: values that are null, zero and the largest of the map; a
\* series of null values only.
LongSeries ==
    {SeriesOf((2020 :> Some(10)) @@ (2021 :> Null) @@ (2022 :> Some(30))),
     SeriesOf((999 :> Some(5)) @@ (2020 :> Some(0)) @@ (2021 :> Some(30)) @@ (2022 :> Some(5))),
     SeriesOf((2020 :> Null) @@ (2021 :> Null))}

\* gdp_by_country: a series, or none, for the first and the second country;
\* the third has none.
SeriesMaps ==
    {[code \in {c \in {1, 2} : (IF c = 1 THEN first ELSE second) # Null} |->
        (IF code = 1 THEN first ELSE second)[1]] :
       first \in {Null} \cup {Some(s) : s \in ShortSeries},
       second \in {Null} \cup {Some(s) : s \in LongSeries}}

\* if (years.length === 0) return <p className="no-data">...
ComparisonNoData(countries, gdpData) == Len(Years(countries, gdpData)) = 0

\* The y-axis labels: formatGDP(maxValue * ratio) for the ratios k/4.
ComparisonTicks(countries, gdpData) ==
    [k \in 1..5 |-> Fraction(MaxValue(countries, gdpData) * (k - 1), 4)]

\* chartUtils.ts
CHART_COLORS ==
    <<"#3498db", "#2ecc71", "#e74c3c", "#f39c12", "#9b59b6",
      "#1abc9c", "#e67e22", "#34495e", "#c0392b", "#27ae60">>

\* CHART_COLORS[index % CHART_COLORS.length], index counting from 0
getColor(index) == CHART_COLORS[(index % Len(CHART_COLORS)) + 1]

\* The legend: one item per selected code, coloured by its index.
Legend(countries) ==
    [idx \in 1..Len(countries) |-> [code |-> countries[idx], color |-> getColor(idx - 1)]]

\* What countries.map((code, idx) => ...) of the lines yields: null for a
\* code without series or without a plotted point, else the group drawn
\* with getColor(idx).
LineOrNull(idx, countries, gdpData) ==
    IF ~HasSeries(gdpData, countries[idx]) THEN Null
    ELSE IF Len(Points(countries[idx], countries, gdpData)) = 0 THEN Null
    ELSE Some([code |-> countries[idx], color |-> getColor(idx - 1)])

RECURSIVE LinesUpTo(_, _, _)
LinesUpTo(n, countries, gdpData) ==
    IF n = 0 THEN <<>>
    ELSE LinesUpTo(n - 1, countries, gdpData) \o LineOrNull(n, countries, gdpData)

\* Variant: a line takes the colour of its place among the lines drawn.
LinesColouredInDrawingOrder(countries, gdpData) ==
    LET lines == LinesUpTo(Len(countries), countries, gdpData)
    IN [k \in 1..Len(lines) |-> [code |-> lines[k].code, color |-> getColor(k - 1)]]

\* The lines drawn, in the order of the svg groups.
Lines(countries, gdpData) == LinesUpTo(Len(countries), countries, gdpData)

\* ------------------------------------------------------- the world GDP chart
\* .sort((a, b) => a.year - b.year): a point moves left past the points of a
\* later year.
RECURSIVE InsertByYear(_, _)
InsertByYear(sorted, d) ==
    IF sorted = <<>> THEN <<d>>
    ELSE IF sorted[Len(sorted)].year - d.year <= 0
      THEN Append(sorted, d)
      ELSE Append(InsertByYear(SubSeq(sorted, 1, Len(sorted) - 1), d), sorted[Len(sorted)])

RECURSIVE SortByYear(_, _)
SortByYear(arr, n) ==
    IF n = 0 THEN <<>> ELSE InsertByYear(SortByYear(arr, n - 1), arr[n])

\* [...data].filter(d => d.value !== null).sort((a, b) => a.year - b.year)
SortedData(history) ==
    LET nonNull(d) == d.value # Null
        kept == SelectSeq(history, nonNull)
    IN SortByYear(kept, Len(kept))

\* if (sortedData.length === 0) return <p>No data available</p>
WorldNoData(history) == Len(SortedData(history)) = 0

\* Math.max(...sortedData.map(d => d.value ?? 0))
WorldMaxValue(history) ==
    MaxOf({NullishZero(SortedData(history)[i].value) : i \in 1..Len(SortedData(history))})

\* [1, 0.75, 0.5, 0.25, 0].map(ratio => maxValue * ratio)
YAxisValues(history) ==
    [k \in 1..5 |-> Fraction(WorldMaxValue(history) * (5 - k), 4)]

\* height: ((point.value ?? 0) / maxValue) * 100 per cent, bar by bar
BarHeights(history) ==
    [i \in 1..Len(SortedData(history)) |->
        Fraction(NullishZero(SortedData(history)[i].value) * 100, WorldMaxValue(history))]

\* A quotient is NaN (0 / 0) or infinite exactly when its divisor is 0.
Finite(q) == q.den # 0

\* The world_gdp_history of the bundles that vary the series map, and the
\* series map of the bundles that vary the history.
ExampleHistory == SeriesOf((2020 :> Some(10)) @@ (2021 :> Null) @@ (2022 :> Some(30))).data
ExampleSeriesMap == (1 :> SeriesOf((2021 :> Some(5))))

\* The bundles the chart claims are checked on: every series map, and every
\* history.
ChartBundles ==
    {[countries |-> ServerCountries(3, "desc"), gdp_by_country |-> series,
      gdp_summary |-> [world_gdp_history |-> ExampleHistory], generated_at |-> 1] :
        series \in SeriesMaps}
      \cup
    {[countries |-> ServerCountries(3, "desc"), gdp_by_country |-> ExampleSeriesMap,
      gdp_summary |-> [world_gdp_history |-> s.data], generated_at |-> 1] :
        s \in ShortSeries \cup LongSeries}

\* The props the dashboard hands to CountryComparisonChart.
ChartYears == Years(selectedCountries, data[1].gdp_by_country)
ChartMaxValue == MaxValue(selectedCountries, data[1].gdp_by_country)
ChartPoints(code) == Points(code, selectedCountries, data[1].gdp_by_country)
\* The chart is rendered for a selection that is not empty.
ChartShown == TableShown /\ Len(selectedCountries) > 0

\* The prop the dashboard hands to WorldGDPChart.
WorldHistory == data[1].gdp_summary.world_gdp_history

\* A dashboard whose only load has succeeded with three countries and one of
\* these bundles.
ChartInit ==
    /\ view = "macro"
    /\ inst = 1
    /\ loads = <<[inst |-> 1, status |-> "ok"]>>
    /\ data \in {Some(bundle) : bundle \in ChartBundles}
    /\ isLoading = FALSE
    /\ error = Null
    /\ selectedCountries = DefaultSelection(data[1].countries)
    /\ currentPage = 1
    /\ sortField = "gdp"
    /\ sortDirection = "desc"
    /\ memo = UseMemo(data, "gdp", "desc", 1)
    /\ toggles = 0
    /\ prevTouched = FALSE
    /\ staleDropped = FALSE
    /\ limit = DEFAULT_LIMIT

ChartNext ==
    \E r \in 1..Len(memo.paginatedCountries) :
        handleToggleCountry(memo.paginatedCountries[r].code)

SpecChart == ChartInit /\ [][ChartNext]_vars

\* ------------------------------------------------- the legend, long selections
\* The series of the i-th country of a long store: none for every fourth,
\* null values only for every fifth, else one amount.
LegendSeriesMap(n) ==
    [code \in {i \in 1..n : i % 4 # 0} |->
        SeriesOf((2020 :> (IF code % 5 = 0 THEN Null ELSE Some(code))) @@ (2021 :> Null))]

\* A dashboard loaded with MaxTicked + 1 countries on which the check boxes
\* have been clicked until the first n rows, and no other, are selected, in
\* row order; toggles counts the check boxes clicked from there on.
LegendInit ==
    /\ view = "macro"
    /\ inst = 1
    /\ loads = <<[inst |-> 1, status |-> "ok"]>>
    /\ data = Some([countries |-> ServerCountries(MaxTicked + 1, "desc"),
                    gdp_by_country |-> LegendSeriesMap(MaxTicked + 1),
                    gdp_summary |-> [world_gdp_history |-> ExampleHistory],
                    generated_at |-> 1])
    /\ isLoading = FALSE
    /\ error = Null
    /\ selectedCountries \in {[i \in 1..n |-> data[1].countries[i].code] : n \in 0..MaxTicked}
    /\ currentPage = 1
    /\ sortField = "gdp"
    /\ sortDirection = "desc"
    /\ memo = UseMemo(data, "gdp", "desc", 1)
    /\ toggles = 0
    /\ prevTouched = FALSE
    /\ staleDropped = FALSE
    /\ limit = DEFAULT_LIMIT

\* The check boxes clicked from there: the first row, the first row outside
\* the default selection, and the last row ticked.
LegendToggledCodes == {1, DEFAULT_SELECTED + 1, MaxTicked}

LegendNext ==
    \E r \in 1..Len(memo.paginatedCountries) :
        /\ memo.paginatedCountries[r].code \in LegendToggledCodes
        /\ handleToggleCountry(memo.paginatedCountries[r].code)

SpecLegend == LegendInit /\ [][LegendNext]_vars

\* --------------------------------------------------- the regional breakdown
\* region_totals is the sequence of its entries, as Object.entries lists
\* them; an entry is [name, value].
\* Variant: no entry is filtered out.
KeptRegions(regions) == regions

\* .filter(([name]) => name && name !== '')
NamedRegions(regions) ==
    LET named(e) == e.name # ""
    IN SelectSeq(regions, named)

\* .sort((a, b) => b[1] - a[1]): an entry moves left past the entries of a
\* smaller value.
RECURSIVE InsertByValue(_, _)
InsertByValue(sorted, e) ==
    IF sorted = <<>> THEN <<e>>
    ELSE IF e.value - sorted[Len(sorted)].value <= 0
      THEN Append(sorted, e)
      ELSE Append(InsertByValue(SubSeq(sorted, 1, Len(sorted) - 1), e), sorted[Len(sorted)])

RECURSIVE SortByValue(_, _)
SortByValue(arr, n) ==
    IF n = 0 THEN <<>> ELSE InsertByValue(SortByValue(arr, n - 1), arr[n])

\* const sortedRegions = Object.entries(regions).filter(...).sort(...)
SortedRegions(regions) ==
    SortByValue(NamedRegions(regions), Len(NamedRegions(regions)))

\* sortedRegions.reduce((sum, [, val]) => sum + val, 0)
RECURSIVE SumValues(_, _)
SumValues(entries, n) ==
    IF n = 0 THEN 0 ELSE SumValues(entries, n - 1) + entries[n].value
RegionsTotal(regions) == SumValues(SortedRegions(regions), Len(SortedRegions(regions)))

\* width: (value / sortedRegions[0][1]) * 100 per cent, row by row
RegionWidths(regions) ==
    [idx \in 1..Len(SortedRegions(regions)) |->
        Fraction(SortedRegions(regions)[idx].value * 100, SortedRegions(regions)[1].value)]

\* (value / total) * 100, row by row, before toFixed(1) rounds it for display
RegionPercents(regions) ==
    [idx \in 1..Len(SortedRegions(regions)) |->
        Fraction(SortedRegions(regions)[idx].value * 100, RegionsTotal(regions))]

\* The names and the totals of the enumerated maps; the second name is the
\* empty string.
RegionNames == <<"EU", "", "NA", "AS">>
RegionValues == {0, 50, 100, 999}

\* Every map that gives a value to some of the names, in the order above.
RegionMaps ==
    {LET present == {i \in 1..Len(RegionNames) : valueOf[i] # Null}
         nth(k) == CHOOSE i \in present : Cardinality({j \in present : j < i}) = k - 1
     IN [k \in 1..Cardinality(present) |->
            [name |-> RegionNames[nth(k)], value |-> valueOf[nth(k)][1]]] :
       valueOf \in [1..Len(RegionNames) -> {Null} \cup {Some(v) : v \in RegionValues}]}

\* The bundles a load answers with: three countries and one of these maps.
RegionBundles ==
    {[countries |-> ServerCountries(3, "desc"),
      gdp_by_country |-> ExampleSeriesMap,
      gdp_summary |-> [world_gdp_history |-> ExampleHistory, region_totals |-> regions]] :
        regions \in RegionMaps}

\* The prop the dashboard hands to RegionalBreakdown.
Regions == data[1].gdp_summary.region_totals

\* The dashboard is mounted, loads one of the bundles or fails, and is
\* retried.
RegionsNext ==
    \/ \E k \in Pending : \E bundle \in RegionBundles : FetchResolvedWith(k, bundle)
    \/ \E k \in Pending : \E message \in ErrorMessages : FetchFailed(k, message)
    \/ Retry

SpecRegions == Init /\ [][RegionsNext]_vars

\* ------------------------------------------------- the trade balance chart
\* c.region as a condition: a region that is neither null nor empty.
HasRegion(c) == c.region # Null /\ c.region[1] # 0

\* .sort((a, b) => (b.trade_balance ?? 0) - (a.trade_balance ?? 0)): a record
\* moves left past the records of a smaller balance.
RECURSIVE InsertByBalance(_, _)
InsertByBalance(sorted, c) ==
    IF sorted = <<>> THEN <<c>>
    ELSE IF NullishZero(c.trade_balance) - NullishZero(sorted[Len(sorted)].trade_balance) <= 0
      THEN Append(sorted, c)
      ELSE Append(InsertByBalance(SubSeq(sorted, 1, Len(sorted) - 1), c), sorted[Len(sorted)])

RECURSIVE SortByBalance(_, _)
SortByBalance(arr, n) ==
    IF n = 0 THEN <<>> ELSE InsertByBalance(SortByBalance(arr, n - 1), arr[n])

\* arr.reverse()
Reverse(arr) == [i \in 1..Len(arr) |-> arr[Len(arr) + 1 - i]]

\* countries.filter(c => c.trade_balance !== null && c.region).sort(...)
CountriesWithTrade(countries) ==
    LET withTrade(c) == c.trade_balance # Null /\ HasRegion(c)
        kept == SelectSeq(countries, withTrade)
    IN SortByBalance(kept, Len(kept))

\* if (countriesWithTrade.length === 0) return No trade data available
TradeNoData(countries) == Len(CountriesWithTrade(countries)) = 0

\* The integer a slice argument stands for: limit / 2 and -(limit / 2) cut
\* off towards zero, for a limit that is not negative.
HalfTowardsZero(n) == n \div 2

\* arr.slice(0, end) for an end that is not negative
SliceTo(arr, end) == SubSeq(arr, 1, Min(end, Len(arr)))

\* arr.slice(start): a negative start counts from the end, 0 (and -0) is the
\* beginning of the array.
SliceFrom(arr, start) ==
    LET from == IF start < 0 THEN Max(Len(arr) + start, 0) ELSE Min(start, Len(arr))
    IN SubSeq(arr, from + 1, Len(arr))

\* countriesWithTrade.filter(c => (c.trade_balance ?? 0) > 0).slice(0, limit / 2)
TopSurplus(countries, n) ==
    LET surplus(c) == NullishZero(c.trade_balance) > 0
    IN SliceTo(SelectSeq(CountriesWithTrade(countries), surplus), HalfTowardsZero(n))

\* Variant: the deficits in the order of the sorted list, the least negative
\* of them first.
TopDeficitNotReversed(countries, n) ==
    LET deficit(c) == NullishZero(c.trade_balance) < 0
    IN SliceFrom(SelectSeq(CountriesWithTrade(countries), deficit), 0 - HalfTowardsZero(n))

\* countriesWithTrade.filter(c => (c.trade_balance ?? 0) < 0)
\*   .slice(-(limit / 2)).reverse()
TopDeficit(countries, n) ==
    LET deficit(c) == NullishZero(c.trade_balance) < 0
    IN Reverse(SliceFrom(SelectSeq(CountriesWithTrade(countries), deficit),
                         0 - HalfTowardsZero(n)))

\* const displayCountries = [...topSurplus, ...topDeficit]
DisplayCountries(countries, n) == TopSurplus(countries, n) \o TopDeficit(countries, n)

\* Balance and region of the enumerated records: a null balance, a null and
\* an empty region, a zero balance, surpluses and deficits.
TradeShapes ==
    {<<Null, Some(1)>>, <<Some(50), Null>>, <<Some(30), Some(0)>>, <<Some(0), Some(1)>>,
     <<Some(50), Some(1)>>, <<Some(30), Some(2)>>, <<Some(0 - 80), Some(1)>>,
     <<Some(0 - 10), Some(2)>>}

\* The record at position i of a store of the trade chart.
TradeCountry(i, shape) ==
    Country(i, i, shape[2], Some(i), Null, Null, Null, Null, shape[1], Null)

\* Balances 50, -80, 30, -10, 5, -200, each of a country with a region.
ExampleTradeStore ==
    LET balances == <<50, 0 - 80, 30, 0 - 10, 5, 0 - 200>>
    IN [i \in 1..Len(balances) |-> TradeCountry(i, <<Some(balances[i]), Some(1)>>)]

\* Every country list of at most MaxLen such records, and the example.
TradeStores ==
    UNION {{[i \in 1..n |-> TradeCountry(i, shapes[i])] : shapes \in [1..n -> TradeShapes]} :
             n \in 0..MaxLen}
      \cup {ExampleTradeStore}

\* The limits the chart is rendered with.
Limits == (0..MaxLimit) \cup {DEFAULT_LIMIT}

\* A dashboard whose only load has succeeded with one of these stores; the
\* chart is rendered with the default limit.
TradeInit ==
    /\ view = "macro"
    /\ inst = 1
    /\ loads = <<[inst |-> 1, status |-> "ok"]>>
    /\ data \in {Some([countries |-> countries, generated_at |-> 1]) : countries \in TradeStores}
    /\ isLoading = FALSE
    /\ error = Null
    /\ selectedCountries = DefaultSelection(data[1].countries)
    /\ currentPage = 1
    /\ sortField = "gdp"
    /\ sortDirection = "desc"
    /\ memo = UseMemo(data, "gdp", "desc", 1)
    /\ toggles = 0
    /\ prevTouched = FALSE
    /\ staleDropped = FALSE
    /\ limit = DEFAULT_LIMIT

\* <TradeBalanceChart countries={...} limit={n} />: the chart is rendered
\* with another limit.
RenderTradeBalanceChart(n) ==
    /\ TableShown
    /\ limit' = n
    /\ UNCHANGED <<view, inst, loads, data, isLoading, error, selectedCountries,
                   currentPage, sortField, sortDirection, memo, toggles, prevTouched,
                   staleDropped>>

TradeNext == \E n \in Limits : RenderTradeBalanceChart(n)

SpecTrade == TradeInit /\ [][TradeNext]_vars

\* The cohorts and the rows of the chart as rendered.
Surplus == TopSurplus(data[1].countries, limit)
Deficit == TopDeficit(data[1].countries, limit)
Displayed == DisplayCountries(data[1].countries, limit)

\* ================================================================ properties
\* Steps of the mounted dashboard, told by what they change.
LoadSucceeds ==
    \E k \in 1..Len(loads) : loads[k].status = "pending" /\ loads'[k].status = "ok"
LoadFails ==
    \E k \in 1..Len(loads) : loads[k].status = "pending" /\ loads'[k].status = "failed"
SortSpecChanges ==
    /\ view = "macro" /\ view' = "macro"
    /\ (sortField' # sortField \/ sortDirection' # sortDirection)
Newest == Len(loads)
\* A check box of the table was clicked.
ToggleStep == toggles' = toggles + 1
\* The page of the mounted dashboard changes.
PageChanges == view = "macro" /\ view' = "macro" /\ currentPage' # currentPage
Members(seq) == {seq[i] : i \in 1..Len(seq)}
\* Any two members of new stand in old in the same order.
OrderKept(old, new) ==
    \A i, j \in 1..Len(new) :
        i < j => \E a, b \in 1..Len(old) : a < b /\ old[a] = new[i] /\ old[b] = new[j]

\* ----------------------------------------------------------------------- C1
C1_Held ==
    /\ data # Null =>
         LET g == data[1].generated_at
         IN /\ g \in 1..Len(loads)
            /\ loads[g].inst = inst
            /\ loads[g].status = "ok"
            /\ \A k \in (g + 1)..Len(loads) : loads[k].status # "ok"
    /\ (view = "macro" /\ loads[Newest].status = "ok") =>
         /\ data # Null
         /\ data[1].generated_at = Newest
         /\ (toggles = 0 => selectedCountries = DefaultSelection(data[1].countries))
C1_Superseded ==
    \A k \in 1..Len(loads) :
        (k < Len(loads) /\ loads[k].status = "pending" /\ loads'[k].status # "pending")
            => UNCHANGED <<data, selectedCountries>>
\* C1: of two loads that completed, the store and the selection held are
\* those of the load started last, in whatever order the responses arrive:
\* the data on screen is that of the newest successful load, and the response
\* of a load that has been superseded changes neither data nor selection.
C1_StaleResponseDiscarded == []C1_Held /\ [][C1_Superseded]_vars
\* A response of an older load arrived while the newer load's table was shown.
C1_Witness == staleDropped /\ TableShown /\ loads[Newest].status = "ok" /\ Newest > 1

\* ----------------------------------------------------------------------- C2
C2_Step ==
    /\ LoadFails =>
         /\ UNCHANGED <<data, selectedCountries, sortField, sortDirection, currentPage>>
         /\ isLoading /\ ~isLoading'
         /\ error = Null /\ error' # Null
    /\ (view = "macro" /\ view' = "macro" /\ isLoading /\ isLoading') =>
         UNCHANGED <<data, selectedCountries, sortField, sortDirection, currentPage>>
    /\ (view' = "macro" /\ error # Null /\ error' # error) =>
         /\ error' = Null
         /\ isLoading'
         /\ loads' = Append(loads, [inst |-> inst, status |-> "pending"])
         /\ UNCHANGED <<data, selectedCountries, sortField, sortDirection, currentPage>>
\* C2: a failed load leaves data, selectedCountries, sortField, sortDirection
\* and currentPage as they were when it started (nothing changes them while
\* the load is in progress, and the failure changes only error and
\* isLoading); the Retry that follows clears the error and starts a new load.
C2_FailureKeepsState == [][C2_Step]_vars
\* A Retry is in progress after a failed load of the same dashboard.
C2_Witness ==
    /\ view = "macro" /\ isLoading /\ error = Null
    /\ \E k \in 1..Len(loads) : loads[k].status = "failed" /\ loads[k].inst = inst
    /\ loads[Newest].status = "pending"

\* ----------------------------------------------------------------------- C3
\* C3: after a successful load (and before any toggle) the selection is the
\* codes of the first five records of the loaded store ordered by descending
\* GDP.
C3_SelectionIsTopFiveByGdp ==
    (TableShown /\ toggles = 0) =>
        selectedCountries =
            DefaultSelection(SortCountries(data[1].countries, "gdp", "desc"))

\* ----------------------------------------------------------------------- C4
\* C4: every successful load leaves sortField gdp, sortDirection desc and
\* currentPage 1.
C4_LoadLeavesDefaults ==
    [][LoadSucceeds =>
          sortField' = "gdp" /\ sortDirection' = "desc" /\ currentPage' = 1]_vars
\* A load succeeded on a dashboard mounted after an earlier one had been
\* sorted, paged and toggled.
C4_Witness ==
    /\ prevTouched /\ TableShown /\ toggles = 0
    /\ sortField = "gdp" /\ sortDirection = "desc" /\ currentPage = 1

\* ----------------------------------------------------------------------- C5
\* C5 as claimed: with a store loaded, 1 <= currentPage <= totalPages.
C5_PageWithinTotal ==
    data # Null => (1 <= currentPage /\ currentPage <= memo.totalPages)
\* C5 as amended: with a store loaded, 1 <= currentPage <= max(totalPages, 1);
\* totalPages is 0 for the empty store, where currentPage stays 1.
C5_PageWithinTotalOrFirst ==
    data # Null =>
        /\ 1 <= currentPage
        /\ currentPage <= Max(memo.totalPages, 1)
        /\ (Len(data[1].countries) > 0 => currentPage <= memo.totalPages)
\* The last page of a store of several pages is displayed.
C5_Witness == TableShown /\ memo.totalPages > 1 /\ currentPage = memo.totalPages

\* ----------------------------------------------------------------------- C6
\* C6: a step that changes sortField or sortDirection of the mounted
\* dashboard leaves currentPage at 1.
C6_SortResetsPage == [][SortSpecChanges => currentPage' = 1]_vars
\* A table of several pages has been paged and sorted, and shows page 1.
C6_Witness ==
    /\ TableShown /\ memo.totalPages > 1
    /\ sortField = "population" /\ sortDirection = "asc" /\ currentPage = 1

\* ----------------------------------------------------------------------- C7
\* C7: handleSort on the current field keeps it and flips the direction; on
\* another field it sets that field, ascending for name and region and
\* descending for every other field.
C7_SortSpecTransition ==
    [][SortSpecChanges =>
          IF sortField' = sortField
            THEN sortDirection' = (IF sortDirection = "asc" THEN "desc" ELSE "asc")
            ELSE sortDirection' =
                   (IF sortField' \in {"name", "region"} THEN "asc" ELSE "desc")]_vars
\* region was chosen (ascending) and its header clicked again.
C7_Witness == TableShown /\ sortField = "region" /\ sortDirection = "desc"

\* ------------------------------------------------------- ordering properties
\* The sort key of a record for a header field: the metric the header shows,
\* null counting as 0 and a null region as the empty string.
KeyOf(c, field) ==
    CASE field \in {"rank", "gdp"} -> NullishZero(c.latest_gdp)
      [] field = "name" -> c.name
      [] field = "region" -> OrEmpty(c.region)
      [] field = "growth" -> NullishZero(c.gdp_growth)
      [] field = "population" -> NullishZero(c.population)
      [] field = "gdp_per_capita" -> NullishZero(c.gdp_per_capita)
      [] field = "fdi_net" -> NullishZero(c.fdi_net)
      [] field = "trade_balance" -> NullishZero(c.trade_balance)
      [] field = "trade_pct" -> NullishZero(c.trade_balance_pct)

NoEqualKeys(countries, field) ==
    \A i, j \in 1..Len(countries) :
        i # j => KeyOf(countries[i], field) # KeyOf(countries[j], field)

Codes(s) == [i \in 1..Len(s) |-> s[i].code]
\* Position in the store of the record with the given code.
PositionOf(countries, code) == CHOOSE p \in 1..Len(countries) : countries[p].code = code

\* ----------------------------------------------------------------------- C8
\* C8: for every header field and every store without equal keys for it, the
\* descending order is the reverse of the ascending order.
C8_DescReversesAsc ==
    (data # Null /\ NoEqualKeys(data[1].countries, sortField)) =>
        LET asc == SortCountries(data[1].countries, sortField, "asc")
        IN /\ sortDirection = "asc" => memo.sortedCountries = asc
           /\ sortDirection = "desc" => memo.sortedCountries = Reverse(asc)
\* The same for the fields the comparator has a case for.
BaseFieldsDescReversesAsc ==
    sortField \in BaseSortFields => C8_DescReversesAsc

\* ----------------------------------------------------------------------- C9
NumericSortFields == {"rank", "gdp", "growth", "population", "gdp_per_capita"}
ZeroIfNull(x) == IF x = <<>> THEN <<0>> ELSE x
\* The store with every null metric replaced by 0.
ZeroFilled(countries) ==
    [i \in 1..Len(countries) |->
        [countries[i] EXCEPT !.latest_gdp = ZeroIfNull(@), !.gdp_growth = ZeroIfNull(@),
                             !.population = ZeroIfNull(@), !.gdp_per_capita = ZeroIfNull(@)]]
\* The metric a numeric header field shows, null counting as 0.
MetricOrZero(c, field) ==
    LET m == CASE field \in {"rank", "gdp"} -> c.latest_gdp
               [] field = "growth" -> c.gdp_growth
               [] field = "population" -> c.population
               [] field = "gdp_per_capita" -> c.gdp_per_capita
    IN IF m = <<>> THEN 0 ELSE m[1]
C10_Held ==
    view = "macro" =>
        /\ memo = UseMemo(data, sortField, sortDirection, currentPage)
        /\ data # Null =>
             LET countries == data[1].countries
                 sorted == memo.sortedCountries
             IN /\ Len(sorted) = Len(countries)
                /\ {sorted[i] : i \in 1..Len(sorted)} = {countries[i] : i \in 1..Len(countries)}
                /\ \A i, j \in 1..Len(sorted) :
                     i < j =>
                       /\ Comparator(sorted[i], sorted[j], sortField, sortDirection) <= 0
                       /\ Comparator(sorted[i], sorted[j], sortField, sortDirection) = 0
                            => PositionOf(countries, sorted[i].code)
                                 < PositionOf(countries, sorted[j].code)
                /\ memo.paginatedCountries =
                     [i \in 1..Len(memo.paginatedCountries) |->
                        sorted[(currentPage - 1) * ITEMS_PER_PAGE + i]]
C10_StoreKept == (data # Null /\ view' = "macro") => data' = data
\* C10: the ordered list and the page slice held by the dashboard are those
\* computed from (store, sortField, sortDirection, currentPage) alone, the
\* ordered list being the store's records in comparator order with equal
\* records in store order, whatever was sorted or paged before; no sort or
\* page step changes the store.
C10_OrderingIsAFunctionOfItsInputs == []C10_Held /\ [][C10_StoreKept]_vars
\* Page 2 of the store of three pages sorted by name, in which several
\* records share a name.
C10_Witness ==
    /\ TableShown /\ currentPage = 2 /\ sortField = "name" /\ sortDirection = "desc"
    /\ \E i, j \in 1..Len(memo.sortedCountries) :
         i < j /\ memo.sortedCountries[i].name = memo.sortedCountries[j].name

\* ---------------------------------------------------------------------- C11
\* C11: for a store of count records totalPages is ceil(count / 20), the
\* least number of pages of 20 that hold count records, and for every valid
\* page k (1 <= k <= totalPages) startRank is (k-1)*20 + 1, the startRank
\* handed to the table being that of the current page.
C11_TotalPagesAndStartRank ==
    data # Null =>
        LET count == Len(data[1].countries)
        IN /\ memo.totalPages >= 0
           /\ memo.totalPages * 20 >= count
           /\ (memo.totalPages - 1) * 20 < count
           /\ \A k \in 1..memo.totalPages :
                /\ StartRank(k) = (k - 1) * 20 + 1
                /\ StartRank(k) \in 1..count
           /\ RowRank(currentPage, 0) = (currentPage - 1) * 20 + 1
\* The second and last page of a store that fills two pages exactly.
C11_Witness ==
    /\ TableShown /\ Len(data[1].countries) = 2 * 20
    /\ memo.totalPages = 2 /\ currentPage = 2

\* ---------------------------------------------------------------------- C12
\* The page slices 1..k of a sorted list, one after the other.
RECURSIVE SlicesUpTo(_, _)
SlicesUpTo(sorted, k) ==
    IF k = 0 THEN <<>> ELSE SlicesUpTo(sorted, k - 1) \o PageSlice(sorted, k)
\* C12: on every valid page k the rank displayed in row i, startRank + i, is
\* the 1-based position of the row's record in the currently sorted list;
\* the page slices 1..totalPages one after the other are the sorted list, so
\* every record is on exactly one page, and every page but the last holds
\* exactly 20 records.
C12_RankIsPositionInSortedList ==
    data # Null =>
        LET sorted == memo.sortedCountries
        IN /\ \A k \in 1..memo.totalPages :
                LET slice == PageSlice(sorted, k)
                IN /\ Len(slice) >= 1
                   /\ k < memo.totalPages => Len(slice) = 20
                   /\ \A i \in 0..(Len(slice) - 1) :
                        /\ RowRank(k, i) \in 1..Len(sorted)
                        /\ sorted[RowRank(k, i)] = slice[i + 1]
                        /\ PositionOf(sorted, slice[i + 1].code) = RowRank(k, i)
           /\ SlicesUpTo(sorted, memo.totalPages) = sorted
           /\ memo.paginatedCountries = PageSlice(sorted, currentPage)
\* The third page of a store sorted by name, whose only row has rank 41.
C12_Witness ==
    /\ TableShown /\ sortField = "name" /\ currentPage = 3
    /\ Len(memo.paginatedCountries) = 1
    /\ RowRank(currentPage, 0) = 41

\* ---------------------------------------------------------------------- C13
C13_Step ==
    ToggleStep =>
        \E r \in 1..Len(memo.paginatedCountries) :
            LET code == memo.paginatedCountries[r].code
                prev == selectedCountries
                new == selectedCountries'
            IN IF code \in Members(prev)
                 THEN /\ Members(new) = Members(prev) \ {code}
                      /\ Len(new) = Len(prev) - 1
                      /\ OrderKept(prev, new)
                 ELSE /\ Len(new) = Len(prev) + 1
                      /\ new[Len(new)] = code
                      /\ SubSeq(new, 1, Len(prev)) = prev
\* C13: a toggle of a code that is not in the selection yields the selection
\* with the code appended at the end; a toggle of a code that is in it yields
\* the selection without the code; the other members keep their relative
\* order, so a code removed and added again ends up last.
C13_ToggleAppendsOrRemoves == [][C13_Step]_vars
\* The first code of the default selection was removed and added again.
C13_Witness ==
    /\ TableShown /\ toggles = 2
    /\ Len(data[1].countries) >= DEFAULT_SELECTED
    /\ selectedCountries = <<2, 3, 4, 5, 1>>

\* ---------------------------------------------------------------------- C14
\* C14: in every reachable state no code occurs twice in the selection,
\* whatever loads and toggles came before (the codes of every loaded store
\* being unique).
C14_NoDuplicateSelection ==
    \A i, j \in 1..Len(selectedCountries) :
        i # j => selectedCountries[i] # selectedCountries[j]
\* A second dashboard was loaded and a code outside its default selection
\* added.
C14_Witness ==
    /\ TableShown /\ Newest > 1 /\ toggles > 0
    /\ Len(selectedCountries) = DEFAULT_SELECTED + 1

\* ---------------------------------------------------------------------- C15
C15_Step ==
    /\ SortSpecChanges => UNCHANGED selectedCountries
    /\ PageChanges => UNCHANGED selectedCountries
    /\ ToggleStep => UNCHANGED <<sortField, sortDirection, currentPage, data, memo>>
\* C15: a sort-header click and a page change leave the selection, members
\* and order, as it was; a toggle leaves sortField, sortDirection,
\* currentPage and the store as they were.
C15_SelectionIndependentOfSortAndPage == [][C15_Step]_vars
\* A check box was clicked on the second page of a table sorted by ascending
\* GDP.
C15_Witness ==
    /\ TableShown /\ toggles > 0
    /\ sortField = "gdp" /\ sortDirection = "asc" /\ currentPage = 2
    /\ selectedCountries = <<2, 3, 4, 5>>

\* ---------------------------------------------------------------------- C16
\* The fetches in flight that the mounted dashboard started.
InFlight == {k \in Pending : view = "macro" /\ loads[k].inst = inst}
C16_Held ==
    /\ Cardinality(InFlight) <= 1
    /\ view = "macro" => (isLoading <=> InFlight # {})
C16_Step ==
    Len(loads') > Len(loads) =>
        /\ loads' = Append(loads, [inst |-> inst', status |-> "pending"])
        /\ view' = "macro"
        /\ \/ view = "stock" /\ inst' = inst + 1
           \/ /\ view = "macro" /\ inst' = inst
              /\ "retry" \in Rendered
              /\ ~isLoading /\ InFlight = {}
\* C16: at most one fetch is in flight for the mounted dashboard, and it is
\* loading exactly while that fetch is in flight; a fetch is started only by
\* a mount and by Retry, and Retry only where its button is rendered, with no
\* load in progress.
C16_OneFetchInFlight == []C16_Held /\ [][C16_Step]_vars
\* Two fetches are in flight, one of them started by the mounted dashboard.
C16_Witness ==
    /\ view = "macro" /\ isLoading
    /\ Cardinality(Pending) = 2 /\ Cardinality(InFlight) = 1

\* ---------------------------------------------------------------------- C17
\* C17: whenever error is set and no load is in progress, the error view
\* with its Retry button is all that is rendered: no table, chart or summary
\* goes with it, whatever was loaded before.
C17_ErrorShownAlone ==
    /\ (view = "macro" /\ error # Null /\ ~isLoading) =>
          /\ Rendered = {"error", "retry"}
          /\ Rendered \cap DashboardSections = {}
    /\ TableShown <=> "top-economies" \in Rendered
    /\ RetryShown <=> "retry" \in Rendered
\* The error view of a dashboard mounted after an earlier one had loaded its
\* store.
C17_Witness ==
    /\ "error" \in Rendered
    /\ \E k \in 1..Len(loads) : loads[k].status = "ok"

\* --------------------------------------------------------- chart properties
\* The selected codes that have a series, and their series.
ChartCodes ==
    {selectedCountries[i] :
       i \in {j \in 1..Len(selectedCountries) :
                selectedCountries[j] \in DOMAIN data[1].gdp_by_country}}
SeriesData(code) == data[1].gdp_by_country[code].data
\* The years of the series of the selected codes.
SelectedYears ==
    {y \in YearValues :
       \E code \in ChartCodes : \E j \in 1..Len(SeriesData(code)) :
          SeriesData(code)[j].year = y}

\* ---------------------------------------------------------------------- C18
\* C18: the year axis of the comparison chart holds the years of the series
\* of the selected codes that have one, each once, in ascending numeric
\* order, for every set of integer years.
C18_YearAxisIsAscendingUnion ==
    ChartShown =>
        /\ Members(ChartYears) = SelectedYears
        /\ Len(ChartYears) = Cardinality(SelectedYears)
        /\ \A i, j \in 1..Len(ChartYears) : i < j => ChartYears[i] < ChartYears[j]
\* The same for years that all have four digits, and the union for all years.
YearAxisOfFourDigitYears ==
    ChartShown =>
        /\ Members(ChartYears) = SelectedYears
        /\ Len(ChartYears) = Cardinality(SelectedYears)
        /\ (\A y \in SelectedYears : y \in 1000..9999) =>
              \A i, j \in 1..Len(ChartYears) : i < j => ChartYears[i] < ChartYears[j]

\* ---------------------------------------------------------------------- C19
\* The years of the axis for which the series of code has a value that
\* passes the test, in axis order.
YearsWith(code, Test(_)) ==
    LET has(y) == \E j \in 1..Len(SeriesData(code)) :
                     SeriesData(code)[j].year = y /\ Test(SeriesData(code)[j].value)
    IN SelectSeq(ChartYears, has)
NonNull(value) == value # Null
PointsAre(code, Test(_)) ==
    LET expected == YearsWith(code, Test)
        points == ChartPoints(code)
    IN /\ Len(points) = Len(expected)
       /\ \A i \in 1..Len(points) :
            /\ points[i].year = expected[i]
            /\ \E j \in 1..Len(SeriesData(code)) :
                  /\ SeriesData(code)[j].year = points[i].year
                  /\ SeriesData(code)[j].value = points[i].value
\* C19: the plotted points of a selected series are the (year, value) pairs
\* of the series whose value is not null, in year-axis order: a point is
\* dropped exactly when its value is null or the series has no entry for the
\* year, and no point is made up for a missing year.
C19_PlottedPointsAreNonNullValues ==
    ChartShown => \A code \in ChartCodes : PointsAre(code, NonNull)
\* The plotted points are the pairs whose value is neither null nor 0.
PlottedPointsAreTruthyValues ==
    ChartShown => \A code \in ChartCodes : PointsAre(code, Truthy)

\* ---------------------------------------------------------------------- C20
\* The values of the series of the selected codes, null aside.
SelectedValues ==
    {v \in 0..30 :
       \E code \in ChartCodes : \E j \in 1..Len(SeriesData(code)) :
          SeriesData(code)[j].value = Some(v)}
\* The plotted points of all selected series.
AllPoints ==
    UNION {{ChartPoints(code)[i] : i \in 1..Len(ChartPoints(code))} : code \in ChartCodes}
\* C20: every plotted point of every selected series is scaled by the one
\* largest value over all selected series: value / maxValue is at most 1,
\* it is 1 for the points holding that largest value (y is then the top of
\* the plot, 270 - 240), and points of equal value have the same y in
\* whatever series they are.
C20_OneGlobalScale ==
    ChartShown =>
        /\ AllPoints # {} =>
              /\ ChartMaxValue > 0
              /\ ChartMaxValue \in SelectedValues
              /\ \A v \in SelectedValues : v <= ChartMaxValue
        /\ \A p \in AllPoints :
              /\ p.y[1].den = ChartMaxValue
              /\ p.y[1].num = 270 * ChartMaxValue - 240 * p.value[1]
              /\ p.value[1] <= ChartMaxValue
              /\ p.value[1] = ChartMaxValue <=> p.y[1].num = (270 - 240) * p.y[1].den
        /\ \A p, q \in AllPoints : p.value = q.value <=> p.y = q.y
\* Two series are plotted; the largest value of the first is below that of
\* the second, which sets the scale.
C20_Witness ==
    /\ ChartShown /\ toggles > 0
    /\ ChartCodes = {1, 2}
    /\ ChartMaxValue = 30
    /\ \E i \in 1..Len(ChartPoints(1)) : ChartPoints(1)[i].value = Some(10)
    /\ \E i \in 1..Len(ChartPoints(2)) : ChartPoints(2)[i].value = Some(30)

\* ---------------------------------------------------------------------- C21
\* x = 70 + ratio * 700: the numerator of the ratio over the denominator of x.
RatioNum(x) == (x.num - 70 * x.den) \div 700
\* C21: on a year axis of N >= 1 years the year at index i (from 0) is put
\* at the ratio i / max(N-1, 1) of the plot width: the divisor is never 0,
\* the ratio lies in [0, 1], grows strictly with i, is 0 for the first year
\* and, when N > 1, 1 for the last; for N = 1 it is 0.  Every plotted point
\* has the x of its year.
C21_NormalizedX ==
    ChartShown =>
        LET n == Len(ChartYears)
            x(i) == XOf(i, n)
        IN /\ \A i \in 0..(n - 1) :
                /\ x(i).den = (IF n - 1 > 1 THEN n - 1 ELSE 1)
                /\ x(i).den # 0
                /\ x(i).num = 70 * x(i).den + 700 * i
                /\ RatioNum(x(i)) = i
                /\ 0 <= RatioNum(x(i)) /\ RatioNum(x(i)) <= x(i).den
                /\ i = 0 => RatioNum(x(i)) = 0
                /\ (i = n - 1 /\ n > 1) => RatioNum(x(i)) = x(i).den
                /\ i > 0 => /\ x(i).den = x(i - 1).den
                            /\ RatioNum(x(i)) > RatioNum(x(i - 1))
           /\ \A code \in ChartCodes : \A k \in 1..Len(ChartPoints(code)) :
                \E i \in 0..(n - 1) :
                    /\ ChartYears[i + 1] = ChartPoints(code)[k].year
                    /\ ChartPoints(code)[k].x = x(i)
\* After a toggle the axis has a single year, whose point is plotted.
C21_Witness ==
    /\ ChartShown /\ toggles > 0 /\ Len(ChartYears) = 1
    /\ \E code \in ChartCodes : Len(ChartPoints(code)) = 1

\* ---------------------------------------------------------------------- C22
\* The comparison chart gives its no-data message when no selected series
\* holds a value that is not null, and otherwise neither a coordinate of a
\* plotted point nor an axis label is NaN or infinite.
ComparisonNoDataOrFinite ==
    ChartShown =>
        IF SelectedValues = {}
          THEN ComparisonNoData(selectedCountries, data[1].gdp_by_country)
          ELSE /\ ~ComparisonNoData(selectedCountries, data[1].gdp_by_country)
               /\ \A p \in AllPoints : Finite(p.x) /\ Finite(p.y[1])
               /\ \A k \in 1..5 :
                    Finite(ComparisonTicks(selectedCountries, data[1].gdp_by_country)[k])
\* The same for the world GDP chart, its bar heights and its axis labels.
WorldNoDataOrFinite ==
    TableShown =>
        IF \A i \in 1..Len(WorldHistory) : WorldHistory[i].value = Null
          THEN WorldNoData(WorldHistory)
          ELSE /\ ~WorldNoData(WorldHistory)
               /\ \A i \in 1..Len(BarHeights(WorldHistory)) : Finite(BarHeights(WorldHistory)[i])
               /\ \A k \in 1..5 : Finite(YAxisValues(WorldHistory)[k])
\* C22: a chart whose input holds no value that is not null (no series, or
\* null values only) shows its no-data state, and in every other case no
\* coordinate, bar height or axis tick it computes is NaN or infinite; for
\* the world GDP chart and for the country comparison chart.
C22_NoDataOrFinite == WorldNoDataOrFinite /\ ComparisonNoDataOrFinite
\* What the two charts do: the comparison chart gives its message exactly
\* when the axis has no year, and computes nothing that is not finite; the
\* world chart gives its message exactly when no value is non-null, and its
\* bar heights are finite unless the largest value is 0.
ChartsNoDataAsCoded ==
    /\ ChartShown =>
          /\ ComparisonNoData(selectedCountries, data[1].gdp_by_country) <=> SelectedYears = {}
          /\ \A p \in AllPoints : Finite(p.x) /\ Finite(p.y[1])
    /\ TableShown =>
          /\ WorldNoData(WorldHistory) <=> \A i \in 1..Len(WorldHistory) : WorldHistory[i].value = Null
          /\ ~WorldNoData(WorldHistory) =>
                \A i \in 1..Len(BarHeights(WorldHistory)) :
                    Finite(BarHeights(WorldHistory)[i]) <=> WorldMaxValue(WorldHistory) # 0

\* ---------------------------------------------------------------------- C23
ChartLegend == Legend(selectedCountries)
ChartLines == Lines(selectedCountries, data[1].gdp_by_country)
\* C23: the legend items are the selected codes in the order of the
\* selection and the lines drawn are in that order too; the code at position
\* idx (from 0) of the selection has colour number idx mod 10 of the
\* palette, in its legend item and in its line.
C23_LegendAndLinesInSelectionOrder ==
    (ChartShown /\ ~ComparisonNoData(selectedCountries, data[1].gdp_by_country)) =>
        /\ Len(ChartLegend) = Len(selectedCountries)
        /\ \A idx \in 0..(Len(selectedCountries) - 1) :
              /\ ChartLegend[idx + 1].code = selectedCountries[idx + 1]
              /\ ChartLegend[idx + 1].color = CHART_COLORS[(idx % 10) + 1]
        /\ OrderKept(selectedCountries, [k \in 1..Len(ChartLines) |-> ChartLines[k].code])
        /\ {ChartLines[k].code : k \in 1..Len(ChartLines)} =
              {code \in ChartCodes : Len(ChartPoints(code)) > 0}
        /\ \A k \in 1..Len(ChartLines) :
              \E idx \in 0..(Len(selectedCountries) - 1) :
                  /\ selectedCountries[idx + 1] = ChartLines[k].code
                  /\ ChartLines[k].color = CHART_COLORS[(idx % 10) + 1]
                  /\ ChartLines[k].color = ChartLegend[idx + 1].color
\* Eleven codes are selected, the last after a toggle; its line takes the
\* first colour of the palette again.
C23_Witness ==
    /\ ChartShown /\ toggles > 0 /\ Len(selectedCountries) = 11
    /\ selectedCountries[11] # 11
    /\ \E k \in 1..Len(ChartLines) :
          ChartLines[k].code = selectedCountries[11] /\ ChartLines[k].color = CHART_COLORS[1]

C25_RegionsNeverDivideByZero ==
    TableShown =>
        /\ (\A i \in 1..Len(Regions) : Regions[i].name = "") => SortedRegions(Regions) = <<>>
        /\ \A idx \in 1..Len(SortedRegions(Regions)) :
              /\ Finite(RegionPercents(Regions)[idx])
              /\ Finite(RegionWidths(Regions)[idx])
\* What holds: the divisors are 0 exactly when every listed value is 0.
RegionsDivideByZeroWhenAllZero ==
    TableShown =>
        /\ (\A i \in 1..Len(Regions) : Regions[i].name = "") => SortedRegions(Regions) = <<>>
        /\ \A idx \in 1..Len(SortedRegions(Regions)) :
              /\ Finite(RegionPercents(Regions)[idx]) <=>
                    \E k \in 1..Len(SortedRegions(Regions)) : SortedRegions(Regions)[k].value # 0
              /\ Finite(RegionWidths(Regions)[idx]) <=> Finite(RegionPercents(Regions)[idx])

\* --------------------------------------------------------- trade properties
\* The records with a balance and a region, by the sign of the balance.
Qualifying == {i \in 1..Len(data[1].countries) :
                 /\ data[1].countries[i].trade_balance # Null
                 /\ data[1].countries[i].region \notin {Null, Some(0)}}
QualifyingSurplus == {data[1].countries[i] : i \in {j \in Qualifying :
                         data[1].countries[j].trade_balance[1] > 0}}
QualifyingDeficit == {data[1].countries[i] : i \in {j \in Qualifying :
                         data[1].countries[j].trade_balance[1] < 0}}
Balance(c) == c.trade_balance[1]
\* The limit per side: half the limit, a whole number of records.
LimitPerSide == CHOOSE n \in 0..limit : 2 * n <= limit /\ 2 * (n + 1) > limit

C27_CohortsWithinLimit ==
    TableShown =>
        /\ 2 * Len(Surplus) <= limit
        /\ 2 * Len(Deficit) <= limit
        /\ Len(Surplus) = Min(LimitPerSide, Cardinality(QualifyingSurplus))
        /\ Len(Deficit) = Min(LimitPerSide, Cardinality(QualifyingDeficit))
\* What holds: the positive cohort is within the limit for every limit, the
\* negative cohort for a limit of 2 or more; for a limit of 0 or 1 the
\* negative cohort holds every qualifying deficit.
CohortsWithinLimitAsCoded ==
    TableShown =>
        /\ Len(Surplus) = Min(LimitPerSide, Cardinality(QualifyingSurplus))
        /\ Len(Deficit) = (IF LimitPerSide = 0 THEN Cardinality(QualifyingDeficit)
                           ELSE Min(LimitPerSide, Cardinality(QualifyingDeficit)))

\* ---------------------------------------------------------------------- C28
\* C28: the trade balance chart shows its no-data state exactly when it has
\* no row to display, the rows being the positive and the negative cohort.
C28_NoDataIffNoRows ==
    TableShown => (TradeNoData(data[1].countries) <=> Displayed = <<>>)
\* What holds: the no-data state is shown exactly when no record has a
\* balance and a region, and then there is no row.
NoDataIffNoQualifyingRecord ==
    TableShown =>
        /\ TradeNoData(data[1].countries) <=> Qualifying = {}
        /\ TradeNoData(data[1].countries) => Displayed = <<>>

\* ---------------------------------------------------------------------- C29
\* The codes of the records of the loaded store.
StoreCodes == IF data = Null THEN {}
              ELSE {data[1].countries[i].code : i \in 1..Len(data[1].countries)}
\* C29: in every reachable state every code of the selection is the code of
\* a record of the loaded store; with no store loaded the selection is empty.
C29_SelectionWithinStore == Members(selectedCountries) \subseteq StoreCodes
\* A store of three records, shown with a row unticked and ticked again.
C29_Witness ==
    /\ TableShown /\ toggles = 2
    /\ Cardinality(StoreCodes) = 3
    /\ selectedCountries = <<2, 3, 1>>

\* ---------------------------------------------------------------------- C30
\* A fetch of the mounted dashboard settles in this step.
C30_Completes(k) == k \in InFlight /\ loads'[k].status # "pending"
C30_Held == view = "macro" => (isLoading <=> InFlight # {})
C30_Step ==
    \A k \in 1..Len(loads) :
        C30_Completes(k) =>
            /\ isLoading /\ ~isLoading'
            /\ \/ loads'[k].status = "failed" /\ error' # Null /\ data' = data
               \/ /\ loads'[k].status = "ok" /\ error' = Null
                  /\ \E countries \in ServerResponses :
                        data' = Some([countries |-> countries, generated_at |-> k])
C30_Leaves == (view = "macro" /\ isLoading) ~> (view = "stock" \/ ~isLoading)
\* C30: where every fetch settles, a dashboard that is loading eventually
\* stops loading (or is unmounted); it is loading exactly while its fetch is
\* in flight; when the fetch settles isLoading becomes false and either
\* error is set, or error is null and data is the fetched bundle.
C30_LoadEventuallyCompletes == []C30_Held /\ [][C30_Step]_vars /\ C30_Leaves
\* A first load that failed and, after Retry, a second that delivered.
C30_Witness ==
    /\ view = "macro" /\ ~isLoading /\ error = Null /\ data # Null
    /\ Len(loads) = 2
    /\ loads[1] = [inst |-> inst, status |-> "failed"]
    /\ loads[2] = [inst |-> inst, status |-> "ok"]

====
